---- MODULE Spec2Model ----
(***************************************************************************)
(* Letterboxd Elo Ranker (src/src/MovieRanker.jsx): the App component's    *)
(* state (movies, history, left, right, message), the two localStorage     *)
(* blobs, the CSV parses in flight, and one action per user event.  An     *)
(* action is the event handler together with the render and the effects    *)
(* (persistence, pair selection) React runs before the next event.         *)
(*                                                                         *)
(* Strings the code computes on (titles, years, ratings, ids) are          *)
(* sequences of one-character strings, so that trim and parseFloat are     *)
(* computed.  Numbers with a fraction (ratings) are held in tenths.        *)
(* download is the file the last event offered for download, if any, and   *)
(* mounted says whether React has the component mounted: it has not before *)
(* the page is loaded, nor after a render has thrown.                      *)
(***************************************************************************)
EXTENDS Integers, Sequences, FiniteSets, TLC

VARIABLES movies, history, left, right, message,
          ls_movies, ls_history, pending, download, mounted, events

vars == <<movies, history, left, right, message,
          ls_movies, ls_history, pending, download, mounted, events>>

----------------------------------------------------------------------------
(* Bounds of the model *)

\* The events processed in a run that change the state: parses started and
\* ended, comparisons resolved, resets and reloads.  events counts them.
MaxEvents == 5

\* The parses in flight at a time.
MaxPending == 1

\* An event that changes the state is processed.
Counted == events < MaxEvents /\ events' = events + 1

\* An event that returns early is processed.
NotCounted == UNCHANGED events

----------------------------------------------------------------------------
(* Strings *)

IsSpace(c) == c \in {" ", "\t", "\n"}

IsDigit(c) == c \in {"0", "1", "2", "3", "4", "5", "6", "7", "8", "9"}

DigitVal(c) ==
  CASE c = "0" -> 0 [] c = "1" -> 1 [] c = "2" -> 2 [] c = "3" -> 3
    [] c = "4" -> 4 [] c = "5" -> 5 [] c = "6" -> 6 [] c = "7" -> 7
    [] c = "8" -> 8 [] OTHER -> 9

RECURSIVE TrimStart(_)
TrimStart(s) ==
  IF s # <<>> /\ IsSpace(Head(s)) THEN TrimStart(Tail(s)) ELSE s

RECURSIVE TrimEnd(_)
TrimEnd(s) ==
  IF s # <<>> /\ IsSpace(s[Len(s)]) THEN TrimEnd(SubSeq(s, 1, Len(s) - 1)) ELSE s

\* String.prototype.trim
Trim(s) == TrimEnd(TrimStart(s))

----------------------------------------------------------------------------
(* Numbers: a rating is null, NaN or a number, the number held in tenths *)

RNull == [tag |-> "null", x10 |-> 0]

RNaN == [tag |-> "nan", x10 |-> 0]

RNum(t) == [tag |-> "num", x10 |-> t]

RECURSIVE DigitsLen(_)
DigitsLen(s) ==
  IF s # <<>> /\ IsDigit(Head(s)) THEN 1 + DigitsLen(Tail(s)) ELSE 0

RECURSIVE DigitsValue(_, _)
DigitsValue(s, acc) ==
  IF s # <<>> /\ IsDigit(Head(s))
  THEN DigitsValue(Tail(s), 10 * acc + DigitVal(Head(s)))
  ELSE acc

\* parseFloat on the unsigned decimal numerals of the model's files (at most
\* one digit after the point): leading white space is skipped, the longest
\* numeral prefix is read, and a string with no such prefix gives NaN.
ParseFloat(str) ==
  LET s == TrimStart(str)
      n == DigitsLen(s)
      rest == SubSeq(s, n + 1, Len(s))
      hasFrac == rest # <<>> /\ Head(rest) = "."
                   /\ Len(rest) >= 2 /\ IsDigit(rest[2])
      frac == IF hasFrac THEN DigitVal(rest[2]) ELSE 0
  IN IF n = 0 /\ ~hasFrac THEN RNaN
     ELSE RNum(10 * DigitsValue(s, 0) + frac)

----------------------------------------------------------------------------
(* Rating engine *)

DefaultElo == 1200

K == 32

\* ratingToInitialElo: !rating holds of null, NaN and 0.
ratingToInitialElo(rating) ==
  IF rating.tag # "num" \/ rating.x10 = 0 THEN DefaultElo
  ELSE 1200 + (rating.x10 - 25) * 20

\* GainThreshold[k] is the least d = eloB - eloA for which
\* Math.round(32 * (1 - expectedScore(eloA, eloB))) >= k, computed from
\* expectedScore's formula 1 / (1 + 10^(d / 400)) in double arithmetic.
GainThreshold ==
  << -719, -523, -428, -364, -314, -273, -237, -205, -176, -149, -124,
     -100, -77, -54, -32, -10, 11, 33, 55, 78, 101, 125, 150, 177, 206,
     238, 274, 315, 365, 429, 524, 720 >>

\* Math.round(K * (1 - expectedScore(eloA, eloB))) for integer ratings.
RoundedGain(eloA, eloB) ==
  Cardinality({k \in 1..K : eloB - eloA >= GainThreshold[k]})

\* updateElo(eloA, eloB, scoreA, k = 32), scoreA in {0, 1}: for integer
\* ratings K * (scoreA - expA) is never half-way between two integers, so
\* each side moves by the same rounded amount.
updateElo(eloA, eloB, scoreA) ==
  LET g == RoundedGain(eloA, eloB)
  IN IF scoreA = 1 THEN <<eloA + g, eloB - g>>
     ELSE <<eloA - (K - g), eloB + (K - g)>>

----------------------------------------------------------------------------
(* Import: the parsed CSV (Papa.parse with header: true) and its items *)

\* A parsed file: the header's column names and, per row, one cell for
\* each column.
FileA ==
  [cols |-> <<"Title", "Year", "Rating">>,
   rows |-> << << <<"X">>, <<"2", "0", "0", "1">>, <<"5">> >>,
               << <<"Y">>, <<"1", "9", "9", "9">>, <<"1">> >> >>]

FileDup ==
  [cols |-> <<"Title", "Year", "Rating">>,
   rows |-> << << <<"X">>, <<"2", "0", "0", "1">>, <<"5">> >>,
               << <<"X">>, <<"2", "0", "0", "1">>, <<"1">> >> >>]

FileAlt ==
  [cols |-> <<"Name", "Release Year", "Your Rating">>,
   rows |-> << << <<" ", "X">>, <<"2", "0", "0", "1", " ">>, <<"a", "b", "c">> >>,
               << <<"X", " ">>, <<"2", "0", "0", "1">>, <<"0">> >> >>]

Files == {FileA, FileDup, FileAlt}

titleKeys == <<"Title", "title", "Film", "Name">>

ratingKeys == <<"Rating", "rating", "Your Rating", "your_rating">>

yearKeys == <<"Year", "year", "Release Year">>

\* No key: what keys.find(...) || null gives when no key is in the row.
NoKey == "null"

InSeq(x, s) == \E i \in 1..Len(s) : s[i] = x

\* rows[0] || {} : the keys of the first row, none when there is no row.
FirstRowKeys(file) == IF file.rows = <<>> THEN <<>> ELSE file.cols

\* mapKey(keys, row) = keys.find((k) => k in row) || null
mapKey(keys, rowKeys) ==
  IF \E i \in 1..Len(keys) : InSeq(keys[i], rowKeys)
  THEN keys[CHOOSE i \in 1..Len(keys) :
              /\ InSeq(keys[i], rowKeys)
              /\ \A j \in 1..(i - 1) : ~InSeq(keys[j], rowKeys)]
  ELSE NoKey

\* r[key]: the row's cell under that column; undefined and "" are both
\* falsy and the code reads cells only through ||, so both are <<>> here.
Cell(cols, r, key) ==
  IF InSeq(key, cols)
  THEN r[CHOOSE i \in 1..Len(cols) : cols[i] = key]
  ELSE <<>>

\* x || y on strings
Or(x, y) == IF x # <<>> THEN x ELSE y

Unknown == <<"U", "n", "k", "n", "o", "w", "n">>

\* The body of rows.map((r) => ...) in importRatingsCsv.
RowToItem(cols, r, tKey, rKey, yKey) ==
  LET title == Or(Cell(cols, r, tKey), Or(r[1], Unknown))
      year == Cell(cols, r, yKey)
      rawRating == Or(Cell(cols, r, rKey),
                      Or(Cell(cols, r, "Rating"), Cell(cols, r, "rating")))
      normalizedRating == IF rawRating = <<>> THEN RNull ELSE ParseFloat(rawRating)
  IN [id |-> Trim(title \o <<"|">> \o year),
      title |-> Trim(title),
      year |-> Trim(year),
      rating |-> normalizedRating,
      elo |-> ratingToInitialElo(normalizedRating),
      played |-> 0,
      wins |-> 0,
      losses |-> 0]

\* parsed: one item per row.
ParseRows(file) ==
  LET keys == FirstRowKeys(file)
      tKey == mapKey(titleKeys, keys)
      rKey == mapKey(ratingKeys, keys)
      yKey == mapKey(yearKeys, keys)
  IN [i \in 1..Len(file.rows) |->
        RowToItem(file.cols, file.rows[i], tKey, rKey, yKey)]

Ids(ms) == {ms[i].id : i \in 1..Len(ms)}

RECURSIVE FilterNew(_, _)
\* parsed.filter((p) => !existingIds.has(p.id))
FilterNew(parsed, existingIds) ==
  IF parsed = <<>> THEN <<>>
  ELSE IF Head(parsed).id \in existingIds
       THEN FilterNew(Tail(parsed), existingIds)
       ELSE <<Head(parsed)>> \o FilterNew(Tail(parsed), existingIds)

\* ImportMovies with a merge that lets a colliding parsed item overwrite the
\* item it collides with.
ImportMoviesOverwrite(cur, parsed, merge) ==
  IF ~merge THEN parsed
  ELSE [i \in 1..Len(cur) |->
          IF \E j \in 1..Len(parsed) : parsed[j].id = cur[i].id
          THEN parsed[CHOOSE j \in 1..Len(parsed) : parsed[j].id = cur[i].id]
          ELSE cur[i]]
       \o FilterNew(parsed, Ids(cur))

\* ImportMovies with a merge that appends every parsed item.
ImportMoviesAppendAll(cur, parsed, merge) ==
  IF ~merge THEN parsed ELSE cur \o parsed

\* ImportMovies with the merge flag ignored: every import merges.
ImportMoviesAlwaysMerge(cur, parsed, merge) ==
  cur \o FilterNew(parsed, Ids(cur))

\* The updater given to setMovies by importRatingsCsv.
ImportMovies(cur, parsed, merge) ==
  IF ~merge THEN parsed
  ELSE cur \o FilterNew(parsed, Ids(cur))

----------------------------------------------------------------------------
(* Pair selector *)

SampleCap == 200

Min(a, b) == IF a <= b THEN a ELSE b

Abs(x) == IF x < 0 THEN -x ELSE x

\* sampleSize = Math.min(200, movies.length * 2)
SampleSize(ms) == Min(SampleCap, Len(ms) * 2)

\* No retained draw yet.
NoPick == <<>>

\* Math.abs(a.elo - b.elo) of the draw <<i, j>>
EloDiff(ms, pick) == Abs(ms[pick[1]].elo - ms[pick[2]].elo)

\* One iteration of pickPair's loop for the draw a = movies[i], b = movies[j].
\* picks is read only through picks.sort(by diff)[0] and the sort is stable,
\* so of picks only its first entry of least diff is kept.
KeepBest(ms, best, i, j) ==
  IF ms[i].id = ms[j].id THEN best
  ELSE IF best = NoPick THEN <<i, j>>
  ELSE IF EloDiff(ms, <<i, j>>) < EloDiff(ms, best) THEN <<i, j>>
  ELSE best

RECURSIVE BestAfter(_, _)
\* The values picks.sort(...)[0] can have after k iterations, over all the
\* values Math.random() can return in them.
BestAfter(ms, k) ==
  IF k = 0 THEN {NoPick}
  ELSE {KeepBest(ms, b, i, j) :
          b \in BestAfter(ms, k - 1), i \in 1..Len(ms), j \in 1..Len(ms)}

\* null for left or right is <<>>, an item m is <<m>>.
Null == <<>>

\* if (picks.length === 0) { const [a, b] = [movies[0], movies[1]]; ... }
FallbackPair(ms) == <<<<ms[1]>>, <<ms[2]>>>>

\* pickPair() run with movies = ms: the <<left, right>> it can set.
pickPair(ms) ==
  IF Len(ms) < 2 THEN {<<Null, Null>>}
  ELSE {IF b = NoPick THEN FallbackPair(ms)
        ELSE <<<<ms[b[1]]>>, <<ms[b[2]]>>>> :
          b \in BestAfter(ms, SampleSize(ms))}

\* useEffect(() => { if (!left || !right) pickPair(); }, [movies]) run in a
\* render whose state is ms, l, r: the <<left, right>> after it.
PairEffect(ms, l, r) ==
  IF l = Null \/ r = Null THEN pickPair(ms) ELSE {<<l, r>>}

----------------------------------------------------------------------------
(* Persistence: localStorage and JSON *)

\* getItem of a key that was never set, or was removed: null.
Absent == [kind |-> "absent", val |-> <<>>]

\* An item as JSON.stringify writes it: NaN becomes null.
JsonItem(m) ==
  [m EXCEPT !.rating = IF m.rating.tag = "nan" THEN RNull ELSE m.rating]

\* JSON.stringify(movies)
StringifyMovies(ms) ==
  [kind |-> "json", val |-> [i \in 1..Len(ms) |-> JsonItem(ms[i])]]

\* JSON.stringify(history): strings and integers only.
StringifyHistory(h) == [kind |-> "json", val |-> h]

\* A stored string JSON.parse throws a SyntaxError on.
Unparseable == [kind |-> "text", val |-> <<>>]

\* What JSON.parse gives for the stored strings "null" and "{}".
JsonNull == [json |-> "null"]

JsonObject == [json |-> "object"]

\* A stored string that is JSON but not the JSON of an array.
StringifyValue(v) == [kind |-> "value", val |-> v]

\* try { return raw ? JSON.parse(raw) : []; } catch (e) { return []; }
LoadBlob(raw) ==
  IF raw.kind = "absent" \/ raw.kind = "text" THEN <<>> ELSE raw.val

\* The value LoadBlob gives for raw is an array.
LoadsArray(raw) == raw.kind # "value"

\* The first render of App with movies and history loaded from rawMovies
\* and rawHistory throws a TypeError: movies.length of null,
\* movies.slice().sort and history.slice(0, 200).map of a value that has no
\* such method.
RenderThrows(rawMovies, rawHistory) ==
  ~LoadsArray(rawMovies) \/ ~LoadsArray(rawHistory)

----------------------------------------------------------------------------
(* Rating update of a resolved comparison *)

HasId(ms, id) == \E i \in 1..Len(ms) : ms[i].id = id

\* movies.find((m) => m.id === id), for an id that is found
Find(ms, id) ==
  ms[CHOOSE i \in 1..Len(ms) :
       /\ ms[i].id = id
       /\ \A j \in 1..(i - 1) : ms[j].id # id]

\* ChoiceMovies with the loser's played left as it was.
ChoiceMoviesLoserNotPlayed(cur, a, b, newA, newB) ==
  [i \in 1..Len(cur) |->
     IF cur[i].id = a.id
     THEN [cur[i] EXCEPT !.elo = newA, !.played = @ + 1, !.wins = @ + 1]
     ELSE IF cur[i].id = b.id
     THEN [cur[i] EXCEPT !.elo = newB, !.losses = @ + 1]
     ELSE cur[i]]

\* The updater given to setMovies by handleChoice.
ChoiceMovies(cur, a, b, newA, newB) ==
  [i \in 1..Len(cur) |->
     IF cur[i].id = a.id
     THEN [cur[i] EXCEPT !.elo = newA, !.played = @ + 1, !.wins = @ + 1]
     ELSE IF cur[i].id = b.id
     THEN [cur[i] EXCEPT !.elo = newB, !.played = @ + 1, !.losses = @ + 1]
     ELSE cur[i]]

\* The values new Date().toISOString() returns.
Times == {"2025-01-01T10:00:00.000Z", "2025-01-01T10:00:01.000Z"}

\* The entry handleChoice puts in front of the log.
HistoryEntry(t, a, b, newA, newB) ==
  [time |-> t, winner |-> a.id, loser |-> b.id,
   prevA |-> a.elo, prevB |-> b.elo, newA |-> newA, newB |-> newB]

\* ChoiceHistory with the entry put behind the log.
ChoiceHistoryAtEnd(h, entry) == h \o <<entry>>

\* The updater given to setHistory by handleChoice.
ChoiceHistory(h, entry) == <<entry>> \o h

----------------------------------------------------------------------------
(* Exporter *)

Digit(d) == <<"0", "1", "2", "3", "4", "5", "6", "7", "8", "9">>[d + 1]

RECURSIVE NatToStr(_)
NatToStr(n) ==
  IF n < 10 THEN <<Digit(n)>> ELSE NatToStr(n \div 10) \o <<Digit(n % 10)>>

\* String(n) of an integer
IntToStr(n) == IF n < 0 THEN <<"-">> \o NatToStr(-n) ELSE NatToStr(n)

\* String(m.rating ?? "")
RatingToStr(r) ==
  IF r.tag = "null" THEN <<>>
  ELSE IF r.tag = "nan" THEN <<"N", "a", "N">>
  ELSE IF r.x10 % 10 = 0 THEN NatToStr(r.x10 \div 10)
  ELSE NatToStr(r.x10 \div 10) \o <<".">> \o <<Digit(r.x10 % 10)>>

RECURSIVE DoubleQuotes(_)
\* str.replace(/"/g, '""')
DoubleQuotes(s) ==
  IF s = <<>> THEN <<>>
  ELSE (IF Head(s) = "\"" THEN <<"\"", "\"">> ELSE <<Head(s)>>)
         \o DoubleQuotes(Tail(s))

csvEscapeCell(s) ==
  IF InSeq(",", s) \/ InSeq("\"", s) \/ InSeq("\n", s)
  THEN <<"\"">> \o DoubleQuotes(s) \o <<"\"">>
  ELSE s

RECURSIVE Join(_, _)
\* cells.join(sep)
Join(cells, sep) ==
  IF cells = <<>> THEN <<>>
  ELSE IF Len(cells) = 1 THEN cells[1]
  ELSE cells[1] \o sep \o Join(Tail(cells), sep)

RECURSIVE InsertByEloBeforeEqual(_, _)
\* InsertByElo with m put in front of the items of the same elo.
InsertByEloBeforeEqual(sorted, m) ==
  IF sorted = <<>> THEN <<m>>
  ELSE IF Head(sorted).elo > m.elo
       THEN <<Head(sorted)>> \o InsertByEloBeforeEqual(Tail(sorted), m)
       ELSE <<m>> \o sorted

RECURSIVE InsertByElo(_, _)
\* m put behind every item of the sorted list whose elo is not less.
InsertByElo(sorted, m) ==
  IF sorted = <<>> THEN <<m>>
  ELSE IF Head(sorted).elo >= m.elo
       THEN <<Head(sorted)>> \o InsertByElo(Tail(sorted), m)
       ELSE <<m>> \o sorted

RECURSIVE SortByElo(_)
\* movies.slice().sort((a, b) => b.elo - a.elo): stable, descending elo.
SortByElo(ms) ==
  IF ms = <<>> THEN <<>>
  ELSE InsertByElo(SortByElo(SubSeq(ms, 1, Len(ms) - 1)), ms[Len(ms)])

HeaderRow ==
  << <<"T", "i", "t", "l", "e">>, <<"Y", "e", "a", "r">>,
     <<"R", "a", "t", "i", "n", "g">>, <<"E", "l", "o">>,
     <<"P", "l", "a", "y", "e", "d">>, <<"W", "i", "n", "s">>,
     <<"L", "o", "s", "s", "e", "s">> >>

\* [m.title, m.year || "", m.rating ?? "", m.elo, m.played, m.wins, m.losses]
\* with String() applied to each cell, as csvEscapeCell does first.
ExportRow(m) ==
  <<m.title, m.year, RatingToStr(m.rating), IntToStr(m.elo),
    IntToStr(m.played), IntToStr(m.wins), IntToStr(m.losses)>>

\* The rows of exportCsv, header first.
ExportRows(ms) ==
  LET sorted == SortByElo(ms)
  IN <<HeaderRow>> \o [i \in 1..Len(sorted) |-> ExportRow(sorted[i])]

\* rows.map((r) => r.map(csvEscapeCell).join(",")).join("\n")
ExportCsvText(ms) ==
  LET rows == ExportRows(ms)
  IN Join([i \in 1..Len(rows) |->
             Join([c \in 1..Len(rows[i]) |-> csvEscapeCell(rows[i][c])], <<",">>)],
          <<"\n">>)

\* No file was offered for download by the last event.
NoDownload == [offered |-> FALSE, name |-> "", text |-> <<>>]

----------------------------------------------------------------------------
(* Messages *)

NoMessage == [text |-> "", rows |-> 0, mode |-> ""]

\* `Imported ${parsed.length} rows from CSV. ${merge ? ... : ...}`
ImportedMessage(n, merge) ==
  [text |-> "Imported rows from CSV.", rows |-> n,
   mode |-> IF merge THEN "(merge mode)" ELSE "(fresh import)"]

ParseErrorMessage == [text |-> "CSV parse error: ", rows |-> 0, mode |-> ""]

ClearedMessage == [text |-> "Cleared data.", rows |-> 0, mode |-> ""]

----------------------------------------------------------------------------
(* The session: state initialisers and the effects of the first render *)

\* useState(() => { ... localStorage.getItem("mb_movies") ... })
InitialMovies(raw) == LoadBlob(raw)

\* useState(() => { ... localStorage.getItem("mb_history") ... })
InitialHistory(raw) == LoadBlob(raw)

\* What localStorage holds when the page is first opened.
FreshStorage == <<Absent, Absent>>

Init ==
  /\ movies = InitialMovies(FreshStorage[1])
  /\ history = InitialHistory(FreshStorage[2])
  /\ mounted = TRUE
  /\ ls_movies = StringifyMovies(movies)
  /\ ls_history = StringifyHistory(history)
  /\ \E pair \in pickPair(movies) :
       left = pair[1] /\ right = pair[2]
  /\ message = NoMessage
  /\ pending = <<>>
  /\ download = NoDownload
  /\ events = 0

\* The page is loaded (again): a new session starts from the stored blobs,
\* and a parse still in flight is lost with the old page.  When the first
\* render throws, React unmounts the component and no effect runs: the
\* blobs stay as they are and no pair is picked.
Reload ==
  /\ movies' = InitialMovies(ls_movies)
  /\ history' = InitialHistory(ls_history)
  /\ mounted' = ~RenderThrows(ls_movies, ls_history)
  /\ IF mounted'
     THEN /\ ls_movies' = StringifyMovies(movies')
          /\ ls_history' = StringifyHistory(history')
          /\ \E pair \in pickPair(movies') :
               left' = pair[1] /\ right' = pair[2]
     ELSE /\ UNCHANGED <<ls_movies, ls_history>>
          /\ left' = Null /\ right' = Null
  /\ message' = NoMessage
  /\ pending' = <<>>
  /\ download' = NoDownload
  /\ Counted

----------------------------------------------------------------------------
(* Import *)

\* importRatingsCsv(file, merge) up to Papa.parse's start; fileOpt is <<>>
\* when the file dialog gave no file.  The callbacks given to Papa.parse
\* close over file, merge and the movies of the render the call was made in.
importRatingsCsv(fileOpt, merge) ==
  /\ mounted /\ UNCHANGED mounted
  /\ IF fileOpt = <<>>
     THEN UNCHANGED pending /\ NotCounted
     ELSE /\ Len(pending) < MaxPending
          /\ pending' = Append(pending, [file |-> fileOpt[1], merge |-> merge,
                                         movies |-> movies])
          /\ Counted
  /\ download' = NoDownload
  /\ UNCHANGED <<movies, history, left, right, message, ls_movies, ls_history>>

RemoveAt(s, k) == SubSeq(s, 1, k - 1) \o SubSeq(s, k + 1, Len(s))

\* CompleteImport with the import applied to the movies the callback closes
\* over, the collection of the render the import was started in.
CompleteImportFromClosure(k) ==
  LET parsed == ParseRows(pending[k].file)
      merge == pending[k].merge
      new == ImportMovies(pending[k].movies, parsed, merge)
  IN /\ mounted /\ UNCHANGED mounted
     /\ Counted
     /\ message' = ImportedMessage(Len(parsed), merge)
     /\ movies' = new
     /\ ls_movies' = StringifyMovies(new)
     /\ \E pair \in PairEffect(new, left, right) :
          left' = pair[1] /\ right' = pair[2]
     /\ pending' = RemoveAt(pending, k)
     /\ download' = NoDownload
     /\ UNCHANGED <<history, ls_history>>

\* Papa.parse's complete callback for the k-th parse in flight, then the
\* render and its effects: the updater given to setMovies is applied to the
\* collection as it is when the callback runs.
CompleteImport(k) ==
  LET parsed == ParseRows(pending[k].file)
      merge == pending[k].merge
      new == ImportMovies(movies, parsed, merge)
  IN /\ mounted /\ UNCHANGED mounted
     /\ Counted
     /\ message' = ImportedMessage(Len(parsed), merge)
     /\ movies' = new
     /\ ls_movies' = StringifyMovies(new)
     /\ \E pair \in PairEffect(new, left, right) :
          left' = pair[1] /\ right' = pair[2]
     /\ pending' = RemoveAt(pending, k)
     /\ download' = NoDownload
     /\ UNCHANGED <<history, ls_history>>

\* ImportError that also empties the collection.
ImportErrorClears(k) ==
  /\ mounted /\ UNCHANGED mounted
  /\ Counted
  /\ message' = ParseErrorMessage
  /\ movies' = <<>>
  /\ ls_movies' = StringifyMovies(movies')
  /\ pending' = RemoveAt(pending, k)
  /\ download' = NoDownload
  /\ UNCHANGED <<history, left, right, ls_history>>

\* Papa.parse's error callback for the k-th parse in flight.
ImportError(k) ==
  /\ mounted /\ UNCHANGED mounted
  /\ Counted
  /\ message' = ParseErrorMessage
  /\ pending' = RemoveAt(pending, k)
  /\ download' = NoDownload
  /\ UNCHANGED <<movies, history, left, right, ls_movies, ls_history>>

----------------------------------------------------------------------------
(* Comparison resolution *)

\* The id of a card that shows no movie: (...)?.id is undefined.
UndefinedId == <<"undefined">>

\* handleChoice that returns early only when the winner is not found: a
\* loser that is not found is taken as an opponent rated DefaultElo.
handleChoiceWinnerOnly(winnerId, loserId) ==
  IF ~HasId(movies, winnerId)
  THEN /\ download' = NoDownload
       /\ NotCounted
       /\ UNCHANGED <<movies, history, left, right, message,
                      ls_movies, ls_history, pending>>
  ELSE LET a == Find(movies, winnerId)
           b == IF HasId(movies, loserId) THEN Find(movies, loserId)
                ELSE [id |-> loserId, elo |-> DefaultElo]
           new == updateElo(a.elo, b.elo, 1)
       IN /\ Counted
          /\ movies' = ChoiceMovies(movies, a, b, new[1], new[2])
          /\ \E t \in Times :
               history' = ChoiceHistory(history, HistoryEntry(t, a, b, new[1], new[2]))
          /\ \E picked \in pickPair(movies) :
               \E pair \in PairEffect(movies', picked[1], picked[2]) :
                 left' = pair[1] /\ right' = pair[2]
          /\ ls_movies' = StringifyMovies(movies')
          /\ ls_history' = StringifyHistory(history')
          /\ download' = NoDownload
          /\ UNCHANGED <<message, pending>>

\* handleChoice(winnerId, loserId), then the render and its effects.
\* pickPair() is called by the handler, whose movies is the collection of
\* the render the click happened in.
handleChoice(winnerId, loserId) ==
  IF ~HasId(movies, winnerId) \/ ~HasId(movies, loserId)
  THEN /\ download' = NoDownload
       /\ NotCounted
       /\ UNCHANGED <<movies, history, left, right, message,
                      ls_movies, ls_history, pending>>
  ELSE LET a == Find(movies, winnerId)
           b == Find(movies, loserId)
           new == updateElo(a.elo, b.elo, 1)
       IN /\ Counted
          /\ movies' = ChoiceMovies(movies, a, b, new[1], new[2])
          /\ \E t \in Times :
               history' = ChoiceHistory(history, HistoryEntry(t, a, b, new[1], new[2]))
          /\ \E picked \in pickPair(movies) :
               \E pair \in PairEffect(movies', picked[1], picked[2]) :
                 left' = pair[1] /\ right' = pair[2]
          /\ ls_movies' = StringifyMovies(movies')
          /\ ls_history' = StringifyHistory(history')
          /\ download' = NoDownload
          /\ UNCHANGED <<message, pending>>

\* A click on "Choose this as better" of card i (0: left, 1: right); the
\* cards are rendered when movies.length >= 2, the button when the card
\* has a movie.
Choose(i) ==
  LET m == IF i = 0 THEN left ELSE right
      other == IF i = 0 THEN right ELSE left
  IN /\ mounted /\ UNCHANGED mounted
     /\ Len(movies) >= 2
     /\ m # Null
     /\ handleChoice(m[1].id, IF other = Null THEN UndefinedId ELSE other[1].id)

----------------------------------------------------------------------------
(* exportCsv and reset *)

\* exportCsv(): the file offered for download.
exportCsv ==
  /\ mounted /\ UNCHANGED mounted
  /\ download' = IF Len(movies) = 0 THEN NoDownload
                 ELSE [offered |-> TRUE, name |-> "movie_rankings.csv",
                       text |-> ExportCsvText(movies)]
  /\ NotCounted
  /\ UNCHANGED <<movies, history, left, right, message,
                 ls_movies, ls_history, pending>>

\* setMovies([])
ResetMovies(ms) == <<>>

\* ResetHistory with the log kept.
ResetHistoryKept(h) == h

\* setHistory([])
ResetHistory(h) == <<>>

\* resetAll(), confirmed the answer to confirm(...), then the render and its
\* effects: the two removeItem calls are followed by the effects' setItem.
resetAll(confirmed) ==
  /\ mounted /\ UNCHANGED mounted
  /\ IF ~confirmed
     THEN /\ download' = NoDownload
          /\ NotCounted
          /\ UNCHANGED <<movies, history, left, right, message,
                         ls_movies, ls_history, pending>>
     ELSE /\ Counted
          /\ movies' = ResetMovies(movies)
          /\ history' = ResetHistory(history)
          /\ message' = ClearedMessage
          /\ ls_movies' = StringifyMovies(movies')
          /\ ls_history' = StringifyHistory(history')
          /\ \E pair \in PairEffect(movies', left, right) :
               left' = pair[1] /\ right' = pair[2]
          /\ download' = NoDownload
          /\ UNCHANGED pending

----------------------------------------------------------------------------

\* A file is chosen in one of the two file inputs.
ImportStarted == \E f \in Files, merge \in BOOLEAN : importRatingsCsv(<<f>>, merge)

\* A file dialog is closed with no file.
ImportNoFile == \E merge \in BOOLEAN : importRatingsCsv(<<>>, merge)

ImportCompleted == \E k \in 1..Len(pending) : CompleteImport(k)

ImportFailed == \E k \in 1..Len(pending) : ImportError(k)

Chosen == \E i \in {0, 1} : Choose(i)

ResetConfirmed == resetAll(TRUE)

ResetCancelled == resetAll(FALSE)

Next ==
  \/ ImportStarted
  \/ ImportNoFile
  \/ ImportCompleted
  \/ ImportFailed
  \/ Chosen
  \/ exportCsv
  \/ ResetConfirmed
  \/ ResetCancelled
  \/ Reload

Spec == Init /\ [][Next]_vars

\* What localStorage can hold when the page is opened: nothing, the blobs a
\* session wrote, or strings that are not the JSON of an array.
StoredMovies ==
  {Absent, StringifyMovies(ParseRows(FileA)), Unparseable,
   StringifyValue(JsonNull), StringifyValue(JsonObject)}

StoredHistory == {Absent, Unparseable, StringifyValue(JsonNull)}

\* The page is about to be loaded: nothing is mounted yet.
InitStored ==
  /\ ls_movies \in StoredMovies
  /\ ls_history \in StoredHistory
  /\ mounted = FALSE
  /\ movies = <<>>
  /\ history = <<>>
  /\ left = Null
  /\ right = Null
  /\ message = NoMessage
  /\ pending = <<>>
  /\ download = NoDownload
  /\ events = 0

SpecStored == InitStored /\ [][Next]_vars

----------------------------------------------------------------------------
(* Transitions, told apart by what they do to the state *)

\* A comparison was resolved: the log grew.
Resolved == Len(history') = Len(history) + 1

\* The k-th parse in flight completed, in merge mode or not.
Completed(k, merge) ==
  /\ k \in 1..Len(pending)
  /\ pending[k].merge = merge
  /\ pending' = RemoveAt(pending, k)
  /\ message' = ImportedMessage(Len(pending[k].file.rows), merge)
  /\ events' = events + 1

----------------------------------------------------------------------------
(* Claims *)

\* C1: no two items of the collection have the same id, whatever imports,
\* resolutions and resets came before.
C1_UniqueIds ==
  \A i, j \in 1..Len(movies) : i # j => movies[i].id # movies[j].id

\* C2: every item of the collection has played = wins + losses, and none of
\* the three is negative.
C2_PlayedIsWinsPlusLosses ==
  \A i \in 1..Len(movies) :
    /\ movies[i].played = movies[i].wins + movies[i].losses
    /\ movies[i].played >= 0 /\ movies[i].wins >= 0 /\ movies[i].losses >= 0

\* C2 witness: after resolutions, one item has won and another has lost.
C2_Witness ==
  \E i, j \in 1..Len(movies) :
    /\ movies[i].wins >= 1 /\ movies[j].losses >= 1
    /\ movies[i].played = movies[i].wins + movies[i].losses

\* C3: after every resolved comparison and after every completed import the
\* pair offered is one the selector yields on the collection as changed.
C3_PairReselected ==
  [][(Resolved \/ \E k \in 1..Len(pending), merge \in BOOLEAN : Completed(k, merge))
       => \E pair \in pickPair(movies') : left' = pair[1] /\ right' = pair[2]]_vars

\* C4: on every reachable collection the selector yields no pair when there
\* are fewer than two items and otherwise two items of different ids, the
\* fallback to the first two items included.
C4_SelectorYieldsDistinct ==
  \A pair \in pickPair(movies) :
    IF Len(movies) < 2 THEN pair = <<Null, Null>>
    ELSE /\ pair[1] # Null /\ pair[2] # Null
         /\ pair[1][1].id # pair[2][1].id

\* C5: a merge import keeps every item already in the collection as it is
\* and in place, and appends exactly the parsed items whose id was not in
\* the collection, in their order; a colliding item overwrites nothing.
C5_MergeKeepsAndAppends ==
  [][\A k \in 1..Len(pending) :
       Completed(k, TRUE) =>
         LET parsed == ParseRows(pending[k].file)
             IsNew(p) == \A i \in 1..Len(movies) : movies[i].id # p.id
         IN /\ Len(movies') >= Len(movies)
            /\ SubSeq(movies', 1, Len(movies)) = movies
            /\ SubSeq(movies', Len(movies) + 1, Len(movies')) = SelectSeq(parsed, IsNew)]_vars

\* C5 witness: a merge of two rows into a collection of two items has
\* appended one row and dropped the other.
C5_Witness ==
  /\ message = ImportedMessage(2, TRUE)
  /\ Len(movies) = 3
  /\ pending = <<>>

\* C6: merging a dataset a second time changes nothing: for every reachable
\* collection and every dataset, the collection after one merge import is
\* left as it is by a second merge import of the same dataset.
C6_MergeIdempotent ==
  \A f \in Files :
    LET once == ImportMovies(movies, ParseRows(f), TRUE)
    IN ImportMovies(once, ParseRows(f), TRUE) = once

\* C6 witness: a merge import has completed, and the merge of a dataset the
\* collection already holds the ids of is in flight.
C6_Witness ==
  /\ message.mode = "(merge mode)"
  /\ Len(movies) >= 2
  /\ Len(pending) = 1
  /\ pending[1].merge
  /\ pending[1].file.rows # <<>>
  /\ \A i \in 1..Len(pending[1].file.rows) :
       ParseRows(pending[1].file)[i].id \in Ids(movies)

\* C7: a fresh import replaces the whole collection by the dataset's items,
\* one per row, each with played = wins = losses = 0 and its elo seeded
\* from its rating.
C7_FreshImportReplaces ==
  [][\A k \in 1..Len(pending) :
       Completed(k, FALSE) =>
         LET rows == pending[k].file.rows
             parsed == ParseRows(pending[k].file)
         IN /\ Len(movies') = Len(rows)
            /\ \A i \in 1..Len(rows) :
                 /\ movies'[i] = parsed[i]
                 /\ movies'[i].played = 0
                 /\ movies'[i].wins = 0
                 /\ movies'[i].losses = 0
                 /\ movies'[i].elo = ratingToInitialElo(movies'[i].rating)]_vars

\* C7 witness: a fresh import has replaced a collection that comparisons
\* had been resolved on.
C7_Witness ==
  /\ message.mode = "(fresh import)"
  /\ Len(history) >= 1
  /\ Len(movies) >= 2
  /\ \A i \in 1..Len(movies) : movies[i].played = 0

\* C8: the log is append-only, most recent first: a resolved comparison puts
\* one entry in front of the unchanged log, a confirmed reset empties it, and
\* every other operation leaves it as it is.
C8_HistoryAppendOnly ==
  [][/\ ResetConfirmed => history' = <<>>
     /\ Chosen =>
          \/ history' = history /\ movies' = movies
          \/ /\ Len(history') = Len(history) + 1
             /\ Tail(history') = history
             /\ Head(history').winner \in Ids(movies)
             /\ Head(history').loser \in Ids(movies)
     /\ ~ResetConfirmed /\ ~Chosen => history' = history]_vars

\* C8 witness: two comparisons were resolved, and the first entry of the log
\* is the later one: it starts from the rating the second entry ended with.
C8_Witness ==
  /\ Len(history) = 2
  /\ history[1].winner = history[2].winner
  /\ history[2].newA # history[2].prevA
  /\ history[1].prevA = history[2].newA

\* C9: the entry made by a resolved comparison names the two ids involved,
\* its prevA and prevB are the elo the winner and the loser had in the
\* collection before the update, and its newA and newB the elo they have in
\* the collection after it.
C9_EntryRecordsUpdate ==
  [][Resolved =>
       LET e == Head(history')
       IN /\ {e.winner, e.loser} = {left[1].id, right[1].id}
          /\ \E w, l \in 1..Len(movies) :
               /\ movies[w].id = e.winner /\ movies[l].id = e.loser
               /\ movies[w].elo = e.prevA /\ movies[l].elo = e.prevB
               /\ movies'[w].elo = e.newA /\ movies'[l].elo = e.newB]_vars

\* C10: after a confirmed reset, and until the next import completes or the
\* page is loaded again, the collection and the log are empty and both
\* stored blobs load as empty: never one cleared and the other not.
C10_ResetClearsBoth ==
  message = ClearedMessage =>
    /\ movies = <<>>
    /\ history = <<>>
    /\ InitialMovies(ls_movies) = <<>>
    /\ InitialHistory(ls_history) = <<>>

\* C10 witness: a reset has cleared a store that held a collection with a
\* pair on offer; the pair's two items are still held by left and right.
C10_Witness ==
  /\ message = ClearedMessage
  /\ left # Null /\ right # Null
  /\ movies = <<>>
  /\ ls_movies.val = <<>> /\ ls_history.val = <<>>

\* C11: persistence is write-through: once an event is processed, the stored
\* collection blob and the stored history blob decode to exactly the
\* collection and the log in memory, so a session started then loads the
\* same state.
C11_WriteThrough ==
  /\ InitialMovies(ls_movies) = movies
  /\ InitialHistory(ls_history) = history

\* C12: when a stored blob is corrupt or unreadable at session start (a
\* stored value that is not a serialized list), the collection and the log
\* are initialised empty and the session goes on without error.
C12_CorruptLoadsEmpty ==
  [][Reload =>
       /\ ~(ls_movies.kind \in {"absent", "json"}) => movies' = <<>>
       /\ ~(ls_history.kind \in {"absent", "json"}) => history' = <<>>
       /\ mounted']_vars

\* C13: a comparison resolution invoked with a winner id or a loser id that
\* names no item of the collection is a no-op: the collection, the log, the
\* stored blobs, the pair on offer and the message stay as they are.
C13_MissingTargetNoOp ==
  [][\A i \in {0, 1} :
       LET m == IF i = 0 THEN left ELSE right
           other == IF i = 0 THEN right ELSE left
       IN (/\ Choose(i)
           /\ \/ ~HasId(movies, m[1].id)
              \/ other = Null
              \/ ~HasId(movies, other[1].id))
          => UNCHANGED <<movies, history, ls_movies, ls_history,
                         left, right, message, pending, mounted>>]_vars

\* C13 witness: a fresh import has replaced the collection under the pair on
\* offer, so the cards are shown and the right card's id names no item; the
\* file of an export is on offer, which the choice that follows withdraws.
C13_Witness ==
  /\ mounted
  /\ Len(movies) >= 2
  /\ left # Null /\ right # Null
  /\ HasId(movies, left[1].id)
  /\ ~HasId(movies, right[1].id)
  /\ download.offered

\* C14: when the row parser reports a failure for an import, fresh or merge,
\* only the status message is produced: the collection and the log, their
\* stored blobs and the pair on offer are what they were.
C14_ParseFailureOnlyMessage ==
  [][ImportFailed =>
       /\ message' = ParseErrorMessage
       /\ UNCHANGED <<movies, history, ls_movies, ls_history, left, right>>]_vars

\* C14 witness: a parse has failed in a session that holds a collection and
\* a log of one resolved comparison.
C14_Witness ==
  /\ message = ParseErrorMessage
  /\ Len(movies) >= 2
  /\ Len(history) = 1
  /\ pending = <<>>

\* C15: the seed rating is 1200 + (r - 2.5) * 200 for every present rating
\* r from 0 to 5, so it is non-decreasing in r and 1200 at r = 2.5; only an
\* absent or invalid rating gives the default 1200.  Stated of the items
\* that have not played yet, whose elo is still the seed.
C15_SeedFromRating ==
  \A i, j \in 1..Len(movies) :
    (movies[i].played = 0 /\ movies[j].played = 0) =>
      /\ movies[i].rating.tag = "num" =>
           movies[i].elo = 1200 + (movies[i].rating.x10 - 25) * 20
      /\ movies[i].rating.tag # "num" => movies[i].elo = DefaultElo
      /\ (/\ movies[i].rating.tag = "num" /\ movies[j].rating.tag = "num"
          /\ movies[i].rating.x10 <= movies[j].rating.x10)
           => movies[i].elo <= movies[j].elo

\* C16: an item's id is trim(title) + "|" + trim(year), title and year being
\* the row's, so two items whose trimmed titles are equal and whose trimmed
\* years are equal have the same id.  An item's title and year fields hold
\* the row's title and year trimmed.
C16_IdIsTrimmedTitleYear ==
  \A i, j \in 1..Len(movies) :
    /\ movies[i].id = movies[i].title \o <<"|">> \o movies[i].year
    /\ (movies[i].title = movies[j].title /\ movies[i].year = movies[j].year)
         => movies[i].id = movies[j].id

\* The place of item i in the ranking: one more than the number of items
\* of higher elo and of items of the same elo that come before it.
EloRank(ms, i) ==
  1 + Cardinality({j \in 1..Len(ms) :
                     \/ ms[j].elo > ms[i].elo
                     \/ ms[j].elo = ms[i].elo /\ j < i})

\* The items by descending elo, items of equal elo in their order in ms.
RankedByElo(ms) ==
  [k \in 1..Len(ms) |-> ms[CHOOSE i \in 1..Len(ms) : EloRank(ms, i) = k]]

\* The text of the header and one line per item of ranked, in that order.
RankedText(ranked) ==
  Join(<<Join(HeaderRow, <<",">>)>>
         \o [k \in 1..Len(ranked) |->
               Join([c \in 1..7 |-> csvEscapeCell(ExportRow(ranked[k])[c])], <<",">>)],
       <<"\n">>)

\* C17: an export offers a file only for a collection that is not empty, the
\* file has one row per item, by descending elo and with items of equal elo
\* in the collection's order, and the export leaves the collection, the log
\* and their blobs as they are.
C17_ExportRanksAndKeeps ==
  [][/\ download'.offered =>
          /\ movies' # <<>>
          /\ download'.text = RankedText(RankedByElo(movies'))
     /\ exportCsv =>
          /\ UNCHANGED <<movies, history, ls_movies, ls_history,
                         left, right, message>>
          /\ download'.offered = (movies # <<>>)]_vars

\* C17 witness: the file of an export is on offer for a collection of three
\* items of which the first two have the same elo and different rows.
C17_Witness ==
  /\ download.offered
  /\ Len(movies) = 3
  /\ movies[1].elo = movies[2].elo
  /\ ExportRow(movies[1]) # ExportRow(movies[2])
  /\ movies[3].elo # movies[1].elo

\* C18: whenever the collection has at least two items, a pair is on offer
\* and both of its ids name items of the collection, so that choosing either
\* card resolves a comparison.
C18_OfferedPairIsLive ==
  (mounted /\ Len(movies) >= 2) =>
    /\ left # Null /\ right # Null
    /\ HasId(movies, left[1].id)
    /\ HasId(movies, right[1].id)

\* C19: after a resolved comparison the pair on offer is computed from the
\* ratings as updated: it is a pair the selector yields on the updated
\* collection, and each offered item has the elo and the played count of
\* the collection's item of that id.
C19_NextPairFromUpdated ==
  [][Resolved =>
       /\ \E pair \in pickPair(movies') : left' = pair[1] /\ right' = pair[2]
       /\ \A o \in {left', right'} :
            o # Null =>
              \E i \in 1..Len(movies') :
                /\ movies'[i].id = o[1].id
                /\ movies'[i].elo = o[1].elo
                /\ movies'[i].played = o[1].played]_vars

\* The k-th parse in flight was started on a collection that comparisons
\* have been resolved on since: an item of it has played more by now.
ResolvedSinceStart(k) ==
  \E i \in 1..Len(pending[k].movies), j \in 1..Len(movies) :
    /\ pending[k].movies[i].id = movies[j].id
    /\ movies[j].played > pending[k].movies[i].played

\* C20: a merge import that completes after comparisons were resolved while
\* it was in flight is applied to the collection as it is at completion:
\* every item keeps the elo, played, wins and losses the resolutions gave
\* it, and the parsed items whose ids are new are appended.
C20_MergeAtCompletion ==
  [][\A k \in 1..Len(pending) :
       (Completed(k, TRUE) /\ ResolvedSinceStart(k)) =>
         LET parsed == ParseRows(pending[k].file)
         IN /\ Len(movies') = Len(movies) + Len(FilterNew(parsed, Ids(movies)))
            /\ \A i \in 1..Len(movies) :
                 /\ movies'[i].id = movies[i].id
                 /\ movies'[i].elo = movies[i].elo
                 /\ movies'[i].played = movies[i].played
                 /\ movies'[i].wins = movies[i].wins
                 /\ movies'[i].losses = movies[i].losses
            /\ \A i \in (Len(movies) + 1)..Len(movies') :
                 movies'[i].id \notin Ids(movies)]_vars

\* C20 witness: a merge import is in flight that was started before a
\* comparison was resolved and that has a new id to append; its completion
\* is the next event.
C20_Witness ==
  /\ Len(pending) = 1
  /\ pending[1].merge
  /\ ResolvedSinceStart(1)
  /\ Len(history) = 1
  /\ \E i \in 1..Len(pending[1].file.rows) :
       ParseRows(pending[1].file)[i].id \notin Ids(movies)
  /\ events < MaxEvents

====
